---- MODULE Spec2Model ----
(***************************************************************************)
(* Liar's Dice game server (src/src/pages/api/socket.ts): the registry of  *)
(* games, the socket handlers createGame, joinGame, startGame, makeBid,    *)
(* callBluff, addComputer, disconnect, the setTimeout continuations and    *)
(* computerMove.                                                           *)
(***************************************************************************)
EXTENDS Integers, Sequences, FiniteSets, TLC

\* ------------------------------------------------------------------ bounds
\* sockets that ever connect
MaxSockets == 2
\* games that are ever created (game ids are never reused)
MaxGames == 1
\* players that are ever created (player ids are never reused)
MaxPlayers == 2
\* makeBid inputs: count in 0..MaxBidCount, value in 0..MaxBidValue
MaxBidCount == 1
MaxBidValue == 1
\* rollDice outcomes considered: hands of stride 0..MaxRollStride
MaxRollStride == 0
\* outcomes of a random die value considered by computerMove
MaxRandomValue == 2
\* pending setTimeout continuations
MaxTimers == 2
\* how far below zero a diceCount is followed
MaxDebt == 1
\* players that are ever created in the specification of the seats
MaxSeatPlayers == 3
\* the specification of the computer's decision: the faces on the dice of the hands
\* and the values of the bids it answers are in 1..MaxHandFace, the counts of those
\* bids are in 1..MaxCurrentBidCount
MaxHandFace == 2
MaxCurrentBidCount == 6
\* the specification of the computer's bids: how far outside 1..6 the value of
\* the bid it answers may be
MaxValueExcess == 2

\* ------------------------------------------------------- program constants
InitialDice == 5
DieFaces == 6
MaxPlayersPerGame == 2
MaxOpeningCount == 3
ComputerSocketId == 0
ComputerName == "Computer"
ComputerMoveDelay == 1500
NewRoundDelay == 3000
\* bluffThreshold = 0.3 = BluffThresholdNum / BluffThresholdDen
BluffThresholdNum == 3
BluffThresholdDen == 10

NoPlayer == 0
NoGame == 0

SocketIds == 1..MaxSockets
GameIds == 1..MaxGames
PlayerIds == 1..MaxPlayers
\* the playerName inputs of createGame and joinGame
PlayerNames == {"Ann"}
BidCounts == 0..MaxBidCount
BidValues == 0..MaxBidValue

\* ----------------------------------------------------------------- helpers
\* rollDice(count): the hands a roll of count dice may give (a bounded choice
\* of the DieFaces^count outcomes): 1,1,1,.. and 1,2,3,.. and so on
Roll(count, stride) == [i \in 1..count |-> (((i - 1) * stride) % DieFaces) + 1]

rollDice(count) == {Roll(count, k) : k \in 0..MaxRollStride}

\* dice.filter(d => d === value).length
CountValue(dice, value) == Cardinality({i \in DOMAIN dice : dice[i] = value})

RECURSIVE SumSeq(_)
SumSeq(s) == IF s = <<>> THEN 0 ELSE Head(s) + SumSeq(Tail(s))

\* players.findIndex(p => p.id === playerId), 0 when there is none
FindIndexById(players, playerId) ==
  IF \E i \in DOMAIN players : players[i].id = playerId
  THEN CHOOSE i \in DOMAIN players :
         /\ players[i].id = playerId
         /\ \A j \in 1..(i - 1) : players[j].id # playerId
  ELSE 0

\* players.findIndex(p => p.socketId === socket.id), 0 when there is none
FindIndexBySocket(players, s) ==
  IF \E i \in DOMAIN players : players[i].socketId = s
  THEN CHOOSE i \in DOMAIN players :
         /\ players[i].socketId = s
         /\ \A j \in 1..(i - 1) : players[j].socketId # s
  ELSE 0

\* players.findIndex(p => p.name === "Computer"), 0 when there is none
FindIndexByName(players, name) ==
  IF \E i \in DOMAIN players : players[i].name = name
  THEN CHOOSE i \in DOMAIN players :
         /\ players[i].name = name
         /\ \A j \in 1..(i - 1) : players[j].name # name
  ELSE 0

\* players.find(p => p.diceCount > 0), 0 when there is none
FindIndexWithDice(players) ==
  IF \E i \in DOMAIN players : players[i].diceCount > 0
  THEN CHOOSE i \in DOMAIN players :
         /\ players[i].diceCount > 0
         /\ \A j \in 1..(i - 1) : players[j].diceCount <= 0
  ELSE 0

\* players.splice(index, 1)
Splice(players, index) ==
  [i \in 1..(Len(players) - 1) |-> IF i < index THEN players[i] ELSE players[i + 1]]

\* the Player object literal
Player(id, name, dice, isCurrentTurn, socketId) ==
  [id |-> id, name |-> name, dice |-> dice, diceCount |-> InitialDice,
   isCurrentTurn |-> isCurrentTurn, socketId |-> socketId]

\* the Bid object literal
Bid(count, value, playerId) == [count |-> count, value |-> value, playerId |-> playerId]

\* game.currentBid is a sequence: <<>> is null, <<bid>> is a bid
NoBid == <<>>

\* the Game object literal of createGame
NewGame(gameId, player) ==
  [id |-> gameId, players |-> <<player>>, currentBid |-> NoBid,
   gameStarted |-> FALSE, gameOver |-> FALSE, winner |-> NoPlayer, showDice |-> FALSE]

\* an emitted event: its name, the game it is about, the player it names
\* (nextPlayerId, loser, winner, playerId) and for bluffCalled the bluffCaller;
\* the message texts and the copy of the game in the payload are left out
Event(type, gameId, player) ==
  [type |-> type, gameId |-> gameId, player |-> player, caller |-> NoPlayer]

\* socket.emit('error', { message })
ErrorEvent == Event("error", NoGame, NoPlayer)

\* ------------------------------------------------------------------- state
VARIABLES
  connected,    \* the sockets that are connected
  nextSocketId, \* the id the next connection gets
  games,        \* the registry: game id -> Game
  orphans,      \* Game objects deleted from the registry that a pending timer still holds
  nextGameId,   \* the id the next game gets
  nextPlayerId, \* the id the next player gets
  timers,       \* the pending setTimeout continuations, in the order they were set
  emitted       \* the events the last handler or continuation emitted

vars == <<connected, nextSocketId, games, orphans, nextGameId, nextPlayerId, timers, emitted>>

Init ==
  /\ connected = {}
  /\ nextSocketId = 1
  /\ games = <<>>
  /\ orphans = <<>>
  /\ nextGameId = 1
  /\ nextPlayerId = 1
  /\ timers = <<>>
  /\ emitted = <<>>

\* games[gameId] = game
PutGame(registry, gameId, game) ==
  [g \in (DOMAIN registry) \cup {gameId} |-> IF g = gameId THEN game ELSE registry[g]]

\* delete games[gameId]
DeleteGame(registry, gameId) ==
  [g \in (DOMAIN registry) \ {gameId} |-> registry[g]]

\* a rejected command: the error goes to the requesting socket, nothing else
\* happens; message is the text of the error
Reject(message) ==
  /\ emitted' = <<ErrorEvent>>
  /\ UNCHANGED <<connected, nextSocketId, games, orphans, nextGameId, nextPlayerId, timers>>

\* io.on('connection')
Connect ==
  /\ nextSocketId <= MaxSockets
  /\ connected' = connected \cup {nextSocketId}
  /\ nextSocketId' = nextSocketId + 1
  /\ emitted' = <<>>
  /\ UNCHANGED <<games, orphans, nextGameId, nextPlayerId, timers>>

\* socket.on('createGame')
CreateGame(s, playerName, dice) ==
  /\ s \in connected
  /\ nextGameId <= MaxGames
  /\ LET player == Player(nextPlayerId, playerName, dice, TRUE, s) IN
     /\ games' = PutGame(games, nextGameId, NewGame(nextGameId, player))
     /\ emitted' = <<Event("gameCreated", nextGameId, nextPlayerId)>>
  /\ nextGameId' = nextGameId + 1
  /\ nextPlayerId' = nextPlayerId + 1
  /\ UNCHANGED <<connected, nextSocketId, orphans, timers>>

\* GameIsFull taking a game of two players for one with a free seat
GameIsFullAboveTwo(players) == Len(players) > MaxPlayersPerGame

\* joinGame and addComputer: game.players.length >= 2
GameIsFull(players) == Len(players) >= MaxPlayersPerGame

\* socket.on('joinGame')
JoinGame(s, gameId, playerName, dice) ==
  /\ s \in connected
  /\ IF gameId \notin DOMAIN games THEN Reject("Game not found")
     ELSE IF games[gameId].gameStarted THEN Reject("Game already started")
     ELSE IF GameIsFull(games[gameId].players) THEN Reject("Game is full")
     ELSE
       /\ LET player == Player(nextPlayerId, playerName, dice, FALSE, s) IN
          /\ games' = [games EXCEPT ![gameId].players = Append(@, player)]
          /\ emitted' = <<Event("gameJoined", gameId, nextPlayerId),
                          Event("playerJoined", gameId, nextPlayerId)>>
       /\ nextPlayerId' = nextPlayerId + 1
       /\ UNCHANGED <<connected, nextSocketId, orphans, nextGameId, timers>>

\* socket.on('startGame')
StartGame(gameId) ==
  /\ connected # {}
  /\ IF gameId \notin DOMAIN games THEN Reject("Game not found")
     ELSE IF Len(games[gameId].players) < 2 THEN Reject("Need at least 2 players to start")
     ELSE
       /\ games' = [games EXCEPT ![gameId].gameStarted = TRUE,
                                 ![gameId].players[1].isCurrentTurn = TRUE]
       /\ emitted' = <<Event("gameStarted", gameId, NoPlayer)>>
       /\ UNCHANGED <<connected, nextSocketId, orphans, nextGameId, nextPlayerId, timers>>

\* socket.on('addComputer')
AddComputer(gameId, dice) ==
  /\ connected # {}
  /\ IF gameId \notin DOMAIN games THEN Reject("Game not found")
     ELSE IF GameIsFull(games[gameId].players) THEN Reject("Game is full")
     ELSE
       /\ LET computerPlayer ==
                Player(nextPlayerId, ComputerName, dice, FALSE, ComputerSocketId) IN
          /\ games' = [games EXCEPT ![gameId].players = Append(@, computerPlayer)]
          /\ emitted' = <<Event("computerAdded", gameId, NoPlayer)>>
       /\ nextPlayerId' = nextPlayerId + 1
       /\ UNCHANGED <<connected, nextSocketId, orphans, nextGameId, timers>>

\* the turn moves to the player after players[currentPlayerIndex]:
\* nextPlayerIndex = (currentPlayerIndex + 1) % players.length (indices from 0;
\* findIndex gives -1, here 0, when the player is not in the list)
NextPlayerIndex(players, currentPlayerIndex) ==
  (currentPlayerIndex % Len(players)) + 1

\* SwitchTurns giving the turn to the next player and taking it from nobody
SwitchTurnsKeeping(players, nextPlayerIndex) ==
  [i \in DOMAIN players |->
     [players[i] EXCEPT !.isCurrentTurn = (@ \/ i = nextPlayerIndex)]]

\* players.forEach((p, index) => p.isCurrentTurn = index === nextPlayerIndex)
SwitchTurns(players, nextPlayerIndex) ==
  [i \in DOMAIN players |-> [players[i] EXCEPT !.isCurrentTurn = (i = nextPlayerIndex)]]

\* players.forEach(p => p.isCurrentTurn = p.id === challenger.id)
TurnTo(players, playerId) ==
  [i \in DOMAIN players |-> [players[i] EXCEPT !.isCurrentTurn = (players[i].id = playerId)]]

\* InvalidBid letting a bid of the same count and the same value through
InvalidBidSameValue(currentBid, count, value) ==
  /\ currentBid # NoBid
  /\ \/ count < currentBid[1].count
     \/ (count = currentBid[1].count /\ value < currentBid[1].value)

\* makeBid's test of the bid against game.currentBid: TRUE when the bid is refused
InvalidBid(currentBid, count, value) ==
  /\ currentBid # NoBid
  /\ \/ count < currentBid[1].count
     \/ (count = currentBid[1].count /\ value <= currentBid[1].value)

\* a pending setTimeout(() => computerMove(game, gameId, io), 1500)
ComputerMoveTimer(gameId) ==
  [kind |-> "computerMove", gameId |-> gameId, challengerId |-> NoPlayer,
   thenComputer |-> FALSE, delay |-> ComputerMoveDelay]

\* a pending setTimeout(() => { new round }, 3000); thenComputer: the continuation
\* goes on to schedule computerMove
NewRoundTimer(gameId, challengerId, thenComputer) ==
  [kind |-> "newRound", gameId |-> gameId, challengerId |-> challengerId,
   thenComputer |-> thenComputer, delay |-> NewRoundDelay]

\* socket.on('makeBid')
MakeBid(gameId, playerId, count, value) ==
  /\ connected # {}
  /\ IF gameId \notin DOMAIN games THEN Reject("Game not found")
     ELSE LET game == games[gameId]
              currentPlayerIndex == FindIndexById(game.players, playerId)
          IN
     IF currentPlayerIndex = 0 THEN Reject("Player not found")
     ELSE IF ~game.players[currentPlayerIndex].isCurrentTurn THEN Reject("Not your turn")
     ELSE IF InvalidBid(game.currentBid, count, value) THEN Reject("Invalid bid")
     ELSE
       LET nextPlayerIndex == NextPlayerIndex(game.players, currentPlayerIndex)
           nextPlayer == game.players[nextPlayerIndex]
           toComputer == nextPlayer.name = ComputerName
       IN
       /\ toComputer => Len(timers) < MaxTimers
       /\ games' = [games EXCEPT
                      ![gameId].currentBid = <<Bid(count, value, playerId)>>,
                      ![gameId].players = SwitchTurns(game.players, nextPlayerIndex)]
       /\ emitted' = <<Event("bidMade", gameId, nextPlayer.id)>>
       /\ timers' = IF toComputer THEN Append(timers, ComputerMoveTimer(gameId)) ELSE timers
       /\ UNCHANGED <<connected, nextSocketId, orphans, nextGameId, nextPlayerId>>

\* game.players.reduce((count, player) =>
\*   count + player.dice.filter(d => d === game.currentBid.value).length, 0)
TotalDiceWithValue(players, value) ==
  SumSeq([i \in DOMAIN players |-> CountValue(players[i].dice, value)])

\* BluffLoser taking a bid that is met exactly for a bluff
BluffLoserStrict(game, challengerIndex) ==
  IF TotalDiceWithValue(game.players, game.currentBid[1].value) > game.currentBid[1].count
  THEN challengerIndex
  ELSE FindIndexById(game.players, game.currentBid[1].playerId)

\* callBluff handler: the index of the loser, the challenger when the bid holds
BluffLoser(game, challengerIndex) ==
  IF TotalDiceWithValue(game.players, game.currentBid[1].value) >= game.currentBid[1].count
  THEN challengerIndex
  ELSE FindIndexById(game.players, game.currentBid[1].playerId)

\* LoseDieAndReroll dealing a full hand again to every player but the loser
LoseDieAndDealAgain(players, loserIndex, rolls) ==
  [i \in DOMAIN players |->
     IF i = loserIndex
     THEN [players[i] EXCEPT
             !.diceCount = @ - 1,
             !.dice = IF players[i].diceCount - 1 > 0
                      THEN Roll(players[i].diceCount - 1, rolls[i]) ELSE <<>>]
     ELSE IF players[i].diceCount > 0
     THEN [players[i] EXCEPT !.diceCount = InitialDice,
                             !.dice = Roll(InitialDice, rolls[i])]
     ELSE players[i]]

\* callBluff handler: loser.diceCount -= 1, the loser's new hand, and the re-roll of
\* every other player that has dice; rolls[i] picks the outcome of player i's roll
LoseDieAndReroll(players, loserIndex, rolls) ==
  [i \in DOMAIN players |->
     IF i = loserIndex
     THEN [players[i] EXCEPT
             !.diceCount = @ - 1,
             !.dice = IF players[i].diceCount - 1 > 0
                      THEN Roll(players[i].diceCount - 1, rolls[i]) ELSE <<>>]
     ELSE IF players[i].diceCount > 0
     THEN [players[i] EXCEPT !.dice = Roll(players[i].diceCount, rolls[i])]
     ELSE players[i]]

\* GameEnded waiting for every player to be out of dice
GameEndedAllOut(players) == \A i \in DOMAIN players : players[i].diceCount = 0

\* game.players.some(p => p.diceCount === 0)
GameEnded(players) == \E i \in DOMAIN players : players[i].diceCount = 0

\* the choices of roll outcomes for the players of a game
RollChoices == [1..MaxPlayersPerGame -> 0..MaxRollStride]

\* socket.on('callBluff')
CallBluff(gameId, playerId, rolls) ==
  /\ connected # {}
  /\ IF gameId \notin DOMAIN games THEN Reject("Game not found")
     ELSE LET game == games[gameId]
              challengerIndex == FindIndexById(game.players, playerId)
          IN
     IF game.currentBid = NoBid THEN Reject("No bid to call bluff on")
     ELSE IF challengerIndex = 0 THEN Reject("Player not found")
     ELSE IF ~game.players[challengerIndex].isCurrentTurn THEN Reject("Not your turn")
     ELSE IF FindIndexById(game.players, game.currentBid[1].playerId) = 0
     THEN \* game.showDice = true came before the bidder was looked up
          /\ games' = [games EXCEPT ![gameId].showDice = TRUE]
          /\ emitted' = <<ErrorEvent>>
          /\ UNCHANGED <<connected, nextSocketId, orphans, nextGameId, nextPlayerId, timers>>
     ELSE
       LET loserIndex == BluffLoser(game, challengerIndex)
           players == LoseDieAndReroll(game.players, loserIndex, rolls)
           bluffCalled == [Event("bluffCalled", gameId, game.players[loserIndex].id)
                             EXCEPT !.caller = playerId]
           winnerIndex == FindIndexWithDice(players)
           challenger == game.players[challengerIndex]
       IN
       /\ players[loserIndex].diceCount >= 0 - MaxDebt
       /\ IF GameEnded(players)
          THEN IF winnerIndex # 0
               THEN /\ games' = [games EXCEPT ![gameId].showDice = TRUE,
                                              ![gameId].players = players,
                                              ![gameId].winner = players[winnerIndex].id,
                                              ![gameId].gameOver = TRUE]
                    /\ emitted' = <<bluffCalled,
                                    Event("gameOver", gameId, players[winnerIndex].id)>>
                    /\ UNCHANGED timers
               ELSE /\ games' = [games EXCEPT ![gameId].showDice = TRUE,
                                              ![gameId].players = players]
                    /\ emitted' = <<bluffCalled>>
                    /\ UNCHANGED timers
          ELSE /\ Len(timers) < MaxTimers
               /\ games' = [games EXCEPT ![gameId].showDice = TRUE,
                                         ![gameId].players = players]
               /\ emitted' = <<bluffCalled>>
               /\ timers' = Append(timers, NewRoundTimer(gameId, challenger.id,
                                                         challenger.name = ComputerName))
       /\ UNCHANGED <<connected, nextSocketId, orphans, nextGameId, nextPlayerId>>

\* the Game object a pending continuation holds: the registry's, or the deleted one
GameObject(gameId) == IF gameId \in DOMAIN games THEN games[gameId] ELSE orphans[gameId]

\* a continuation wrote to the Game object it holds; a deleted object that no
\* pending continuation holds any more is dropped
StoreGame(gameId, game, pending) ==
  IF gameId \in DOMAIN games
  THEN /\ games' = [games EXCEPT ![gameId] = game]
       /\ UNCHANGED orphans
  ELSE /\ orphans' = IF \E i \in DOMAIN pending : pending[i].gameId = gameId
                     THEN PutGame(orphans, gameId, game)
                     ELSE DeleteGame(orphans, gameId)
       /\ UNCHANGED games

\* timers without the one at index i
RemoveAt(s, i) == [j \in 1..(Len(s) - 1) |-> IF j < i THEN s[j] ELSE s[j + 1]]

\* the timer at index i is due before every timer set earlier: timers of the same
\* delay fire in the order they were set, and a timer set earlier with a shorter
\* delay fires first
CanFire(i) == \A j \in 1..(i - 1) : timers[j].delay > timers[i].delay

\* the setTimeout continuation of callBluff and of computerMove: the new round
NewRound(i) ==
  /\ i \in DOMAIN timers
  /\ timers[i].kind = "newRound"
  /\ CanFire(i)
  /\ LET t == timers[i]
         game == GameObject(t.gameId)
         pending == IF t.thenComputer
                    THEN Append(RemoveAt(timers, i), ComputerMoveTimer(t.gameId))
                    ELSE RemoveAt(timers, i)
     IN
     /\ StoreGame(t.gameId,
                  [game EXCEPT !.showDice = FALSE, !.currentBid = NoBid,
                               !.players = TurnTo(game.players, t.challengerId)],
                  pending)
     /\ emitted' = <<Event("newRound", t.gameId, t.challengerId)>>
     /\ timers' = pending
  /\ UNCHANGED <<connected, nextSocketId, nextGameId, nextPlayerId>>

\* computerMove: opponentDiceCount, the dice of the players not named "Computer"
OpponentDiceCount(players) ==
  SumSeq([i \in DOMAIN players |->
            IF players[i].name # ComputerName THEN players[i].diceCount ELSE 0])

\* ProbabilityLoop counting one opponent die less in every round of the loop:
\* probability *= probPerDie * (opponentDiceCount - i) / (i + 1)
RECURSIVE ProbabilityLoopFalling(_, _, _, _, _)
ProbabilityLoopFalling(from, neededFromOpponent, opponentDiceCount, num, den) ==
  IF from >= neededFromOpponent THEN [num |-> num, den |-> den]
  ELSE ProbabilityLoopFalling(from + 1, neededFromOpponent, opponentDiceCount,
                              num * (opponentDiceCount - from), den * DieFaces * (from + 1))

\* computerMove: the loop probability *= probPerDie * opponentDiceCount / (i + 1),
\* for i = from .. neededFromOpponent - 1, on the fraction num / den
RECURSIVE ProbabilityLoop(_, _, _, _, _)
ProbabilityLoop(from, neededFromOpponent, opponentDiceCount, num, den) ==
  IF from >= neededFromOpponent THEN [num |-> num, den |-> den]
  ELSE ProbabilityLoop(from + 1, neededFromOpponent, opponentDiceCount,
                       num * opponentDiceCount, den * DieFaces * (from + 1))

\* Math.min(1.0, Math.max(0.0, probability))
Clamp(p) ==
  IF p.num < 0 THEN [num |-> 0, den |-> 1]
  ELSE IF p.num > p.den THEN [num |-> 1, den |-> 1]
  ELSE p

\* computerMove: the probability that the current bid is true, as a fraction
Probability(neededFromOpponent, opponentDiceCount) ==
  IF neededFromOpponent <= 0 THEN [num |-> 1, den |-> 1]
  ELSE IF neededFromOpponent > opponentDiceCount THEN [num |-> 0, den |-> 1]
  ELSE Clamp(ProbabilityLoop(0, neededFromOpponent, opponentDiceCount, 1, 1))

\* computerMove: callBluff = probability < bluffThreshold
ComputerCallsBluff(dice, currentBid, opponentDiceCount) ==
  LET computerValueCount == CountValue(dice, currentBid[1].value)
      neededFromOpponent == currentBid[1].count - computerValueCount
      probability == Probability(neededFromOpponent, opponentDiceCount)
  IN probability.num * BluffThresholdDen < probability.den * BluffThresholdNum

\* computerMove: the highest frequency of a value in the hand (0 for an empty hand)
MaxCount(dice) ==
  LET counts == {CountValue(dice, v) : v \in 1..DieFaces}
  IN CHOOSE c \in counts : \A d \in counts : d <= c

\* computerMove: the first value of that frequency (1 for an empty hand)
MaxValue(dice) ==
  IF MaxCount(dice) = 0 THEN 1
  ELSE CHOOSE v \in 1..DieFaces :
         /\ CountValue(dice, v) = MaxCount(dice)
         /\ \A w \in 1..(v - 1) : CountValue(dice, w) < MaxCount(dice)

\* computerMove: the bid chosen before the validity clamp; coin is
\* Math.random() < 0.5, randomValue is Math.floor(Math.random() * 6) + 1
ComputerCandidate(dice, currentBid, coin, randomValue) ==
  LET maxCount == MaxCount(dice)
      maxValue == MaxValue(dice)
      bid == currentBid[1]
  IN
  IF maxCount >= 2
  THEN IF maxValue > bid.value THEN [count |-> bid.count, value |-> maxValue]
       ELSE IF maxValue < bid.value THEN [count |-> bid.count + 1, value |-> maxValue]
       ELSE [count |-> bid.count + 1, value |-> bid.value]
  ELSE IF coin /\ bid.value < DieFaces THEN [count |-> bid.count, value |-> bid.value + 1]
       ELSE [count |-> bid.count + 1, value |-> randomValue]

\* computerMove: "Ensure the bid is valid (higher than current bid)"
ComputerClamp(candidate, currentBid) ==
  LET bid == currentBid[1] IN
  IF candidate.count < bid.count
     \/ (candidate.count = bid.count /\ candidate.value <= bid.value)
  THEN IF bid.value + 1 > DieFaces
       THEN [count |-> bid.count + 1, value |-> 1]
       ELSE [count |-> bid.count, value |-> bid.value + 1]
  ELSE candidate

\* computerMove: the bid the computer makes on currentBid
ComputerBid(dice, currentBid, coin, randomValue) ==
  ComputerClamp(ComputerCandidate(dice, currentBid, coin, randomValue), currentBid)

\* ComputerBluffLoser taking a bid that is met exactly for a bluff
ComputerBluffLoserStrict(game, computerIndex) ==
  IF TotalDiceWithValue(game.players, game.currentBid[1].value) > game.currentBid[1].count
  THEN computerIndex
  ELSE FindIndexById(game.players, game.currentBid[1].playerId)

\* computerMove: the index of the loser of the computer's bluff call
ComputerBluffLoser(game, computerIndex) ==
  IF TotalDiceWithValue(game.players, game.currentBid[1].value) >= game.currentBid[1].count
  THEN computerIndex
  ELSE FindIndexById(game.players, game.currentBid[1].playerId)

\* computerMove: loser.diceCount -= 1, the loser's new hand and the re-roll of the others
ComputerLoseDieAndReroll(players, loserIndex, rolls) ==
  [i \in DOMAIN players |->
     IF i = loserIndex
     THEN [players[i] EXCEPT
             !.diceCount = @ - 1,
             !.dice = IF players[i].diceCount - 1 > 0
                      THEN Roll(players[i].diceCount - 1, rolls[i]) ELSE <<>>]
     ELSE IF players[i].diceCount > 0
     THEN [players[i] EXCEPT !.dice = Roll(players[i].diceCount, rolls[i])]
     ELSE players[i]]

\* the values Math.floor(Math.random() * 6) + 1 gives that are considered
RandomValues == 1..MaxRandomValue

\* computerMove(game, gameId, io), run by the continuation at index i of timers
ComputerMove(i, openingCount, randomValue, coin, rolls) ==
  /\ i \in DOMAIN timers
  /\ timers[i].kind = "computerMove"
  /\ CanFire(i)
  /\ LET gameId == timers[i].gameId
         game == GameObject(gameId)
         pending == RemoveAt(timers, i)
         computerIndex == FindIndexByName(game.players, ComputerName)
     IN
     IF computerIndex = 0 \/ ~game.players[computerIndex].isCurrentTurn
     THEN \* return
          /\ StoreGame(gameId, game, pending)
          /\ emitted' = <<>>
          /\ timers' = pending
     ELSE
       LET computerPlayer == game.players[computerIndex]
           nextPlayerIndex == NextPlayerIndex(game.players, computerIndex)
       IN
       IF game.currentBid = NoBid
       THEN \* a random first bid
            /\ StoreGame(gameId,
                 [game EXCEPT
                    !.currentBid = <<Bid(openingCount, randomValue, computerPlayer.id)>>,
                    !.players = SwitchTurns(game.players, nextPlayerIndex)],
                 pending)
            /\ emitted' = <<Event("bidMade", gameId, game.players[nextPlayerIndex].id)>>
            /\ timers' = pending
       ELSE IF ComputerCallsBluff(computerPlayer.dice, game.currentBid,
                                  OpponentDiceCount(game.players))
       THEN IF FindIndexById(game.players, game.currentBid[1].playerId) = 0
            THEN \* if (!bidder) return, after game.showDice = true
                 /\ StoreGame(gameId, [game EXCEPT !.showDice = TRUE], pending)
                 /\ emitted' = <<>>
                 /\ timers' = pending
            ELSE
              LET loserIndex == ComputerBluffLoser(game, computerIndex)
                  players == ComputerLoseDieAndReroll(game.players, loserIndex, rolls)
                  bluffCalled ==
                    [Event("bluffCalled", gameId, game.players[loserIndex].id)
                       EXCEPT !.caller = computerPlayer.id]
                  winnerIndex == FindIndexWithDice(players)
                  newRound == Append(pending, NewRoundTimer(gameId, computerPlayer.id, TRUE))
              IN
              /\ players[loserIndex].diceCount >= 0 - MaxDebt
              /\ IF GameEnded(players)
                 THEN IF winnerIndex # 0
                      THEN /\ StoreGame(gameId,
                                [game EXCEPT !.showDice = TRUE, !.players = players,
                                             !.winner = players[winnerIndex].id,
                                             !.gameOver = TRUE],
                                pending)
                           /\ emitted' = <<bluffCalled,
                                  Event("gameOver", gameId, players[winnerIndex].id)>>
                           /\ timers' = pending
                      ELSE /\ StoreGame(gameId,
                                [game EXCEPT !.showDice = TRUE, !.players = players],
                                pending)
                           /\ emitted' = <<bluffCalled>>
                           /\ timers' = pending
                 ELSE /\ StoreGame(gameId,
                           [game EXCEPT !.showDice = TRUE, !.players = players], newRound)
                      /\ emitted' = <<bluffCalled>>
                      /\ timers' = newRound
       ELSE \* make a bid
            LET bid == ComputerBid(computerPlayer.dice, game.currentBid, coin, randomValue) IN
            /\ StoreGame(gameId,
                 [game EXCEPT
                    !.currentBid = <<Bid(bid.count, bid.value, computerPlayer.id)>>,
                    !.players = SwitchTurns(game.players, nextPlayerIndex)],
                 pending)
            /\ emitted' = <<Event("bidMade", gameId, game.players[nextPlayerIndex].id)>>
            /\ timers' = pending
  /\ UNCHANGED <<connected, nextSocketId, nextGameId, nextPlayerId>>

\* disconnect: the players of a game once the first player of socket s is spliced out
PlayersWithout(players, s) ==
  IF FindIndexBySocket(players, s) = 0 THEN players
  ELSE Splice(players, FindIndexBySocket(players, s))

\* disconnect: the playerLeft events, in the order of Object.keys(games)
RECURSIVE PlayerLeftEvents(_, _)
PlayerLeftEvents(gameId, s) ==
  IF gameId >= nextGameId THEN <<>>
  ELSE IF gameId \in DOMAIN games /\ FindIndexBySocket(games[gameId].players, s) # 0
  THEN <<Event("playerLeft", gameId,
               games[gameId].players[FindIndexBySocket(games[gameId].players, s)].id)>>
       \o PlayerLeftEvents(gameId + 1, s)
  ELSE PlayerLeftEvents(gameId + 1, s)

\* socket.on('disconnect')
Disconnect(s) ==
  /\ s \in connected
  /\ connected' = connected \ {s}
  /\ LET kept == {g \in DOMAIN games : PlayersWithout(games[g].players, s) # <<>>}
         held == {g \in (DOMAIN games) \ kept : \E i \in DOMAIN timers : timers[i].gameId = g}
     IN
     /\ games' = [g \in kept |->
                    [games[g] EXCEPT !.players = PlayersWithout(games[g].players, s)]]
     /\ orphans' = [g \in (DOMAIN orphans) \cup held |->
                      IF g \in held
                      THEN [games[g] EXCEPT !.players = PlayersWithout(games[g].players, s)]
                      ELSE orphans[g]]
  /\ emitted' = PlayerLeftEvents(1, s)
  /\ UNCHANGED <<nextSocketId, nextGameId, nextPlayerId, timers>>

\* the commands, connections and continuations, with inputs from the bounded sets;
\* no more than MaxPlayers players are ever created
Next ==
  \/ Connect
  \/ \E s \in SocketIds, n \in PlayerNames, d \in rollDice(InitialDice) :
       CreateGame(s, n, d) /\ nextPlayerId' <= MaxPlayers + 1
  \/ \E s \in SocketIds, g \in GameIds, n \in PlayerNames, d \in rollDice(InitialDice) :
       JoinGame(s, g, n, d) /\ nextPlayerId' <= MaxPlayers + 1
  \/ \E g \in GameIds : StartGame(g)
  \/ \E g \in GameIds, d \in rollDice(InitialDice) :
       AddComputer(g, d) /\ nextPlayerId' <= MaxPlayers + 1
  \/ \E g \in GameIds, p \in PlayerIds, c \in BidCounts, v \in BidValues :
       MakeBid(g, p, c, v)
  \/ \E g \in GameIds, p \in PlayerIds, r \in RollChoices :
       CallBluff(g, p, r)
  \/ \E s \in SocketIds : Disconnect(s)
  \/ \E i \in 1..MaxTimers : NewRound(i)
  \/ \E i \in 1..MaxTimers, c \in 1..MaxOpeningCount, v \in RandomValues, coin \in BOOLEAN,
        r \in RollChoices :
       ComputerMove(i, c, v, coin, r)

Spec == Init /\ [][Next]_vars

\* ------------------------------------------------- the seats of a game
\* the same program with a third player id, so that a seat a disconnect has freed
\* can be taken again and a full game is asked for a third seat; to make room
\* the only bid sent is one of value 1, and one continuation is pending at a time
SeatPlayerIds == 1..MaxSeatPlayers

SeatsNext ==
  \/ Connect
  \/ \E s \in SocketIds, n \in PlayerNames, d \in rollDice(InitialDice) :
       CreateGame(s, n, d) /\ nextPlayerId' <= MaxSeatPlayers + 1
  \/ \E s \in SocketIds, g \in GameIds, n \in PlayerNames, d \in rollDice(InitialDice) :
       JoinGame(s, g, n, d) /\ nextPlayerId' <= MaxSeatPlayers + 1
  \/ \E g \in GameIds : StartGame(g)
  \/ \E g \in GameIds, d \in rollDice(InitialDice) :
       AddComputer(g, d) /\ nextPlayerId' <= MaxSeatPlayers + 1
  \/ \E g \in GameIds, p \in SeatPlayerIds, c \in 1..MaxBidCount :
       MakeBid(g, p, c, 1) /\ Len(timers') <= 1
  \/ \E g \in GameIds, p \in SeatPlayerIds, r \in RollChoices :
       CallBluff(g, p, r) /\ Len(timers') <= 1
  \/ \E s \in SocketIds : Disconnect(s)
  \/ \E i \in 1..MaxTimers : NewRound(i)
  \/ \E i \in 1..MaxTimers, c \in 1..MaxOpeningCount, v \in RandomValues, coin \in BOOLEAN,
        r \in RollChoices :
       ComputerMove(i, c, v, coin, r) /\ Len(timers') <= 1

SeatsSpec == Init /\ [][SeatsNext]_vars

\* ------------------------------------------- the decision of the computer
\* computerMove on every hand, bid and number of opponent dice within the bounds:
\* a started game of a human player and the computer, both with dice; the human
\* player has just made the bid and the computerMove set by makeBid is pending
ComputerHands == UNION {[1..n -> 1..MaxHandFace] : n \in 1..InitialDice}

\* the game when computerMove is about to run on the computer's turn: the human
\* player (player 1, socket 1) has opponentDiceCount dice, the computer (player 2)
\* has the hand dice; with a current bid the human player has just made it and the
\* computerMove set by makeBid is pending, without one a new round has just started
\* after the computer's bluff call
ComputerTurn(dice, opponentDiceCount, currentBid) ==
  LET human == [Player(1, "Ann", Roll(opponentDiceCount, 0), FALSE, 1)
                  EXCEPT !.diceCount = opponentDiceCount]
      computerPlayer == [Player(2, ComputerName, dice, TRUE, ComputerSocketId)
                           EXCEPT !.diceCount = Len(dice)]
  IN
  /\ connected = {1}
  /\ nextSocketId = 2
  /\ games = PutGame(<<>>, 1,
               [NewGame(1, human) EXCEPT !.players = <<human, computerPlayer>>,
                                         !.currentBid = currentBid,
                                         !.gameStarted = TRUE])
  /\ orphans = <<>>
  /\ nextGameId = 2
  /\ nextPlayerId = 3
  /\ timers = <<ComputerMoveTimer(1)>>
  /\ emitted = IF currentBid = NoBid THEN <<Event("newRound", 1, 2)>>
               ELSE <<Event("bidMade", 1, 2)>>

ComputerInit ==
  \E dice \in ComputerHands, opponentDiceCount \in 1..InitialDice,
     count \in 1..MaxCurrentBidCount, value \in 1..MaxHandFace :
    ComputerTurn(dice, opponentDiceCount, <<Bid(count, value, 1)>>)

ComputerNext ==
  \E c \in 1..MaxOpeningCount, v \in RandomValues, coin \in BOOLEAN, r \in RollChoices :
    ComputerMove(1, c, v, coin, r)

ComputerSpec == ComputerInit /\ [][ComputerNext]_vars

\* ----------------------------------------- the bluff call of the computer
\* from the states in which the computer is to answer a bid: computerMove, the
\* callBluff command with the computer's player id, and the new round
ComputerId == 2

BluffCallNext ==
  \/ ComputerNext
  \/ \E r \in RollChoices : CallBluff(1, ComputerId, r)
  \/ \E i \in 1..MaxTimers : NewRound(i)

BluffCallSpec == ComputerInit /\ [][BluffCallNext]_vars

\* ------------------------------------------------- a game of two players
\* the game once startGame has run on a game of two players with five dice each,
\* the second one a human player of socket 2 or the computer; from there the
\* commands of the game and the continuations, and no player comes or leaves
PlayInit ==
  \E computer \in BOOLEAN, dice1 \in rollDice(InitialDice), dice2 \in rollDice(InitialDice) :
    LET creator == Player(1, "Ann", dice1, TRUE, 1)
        second == IF computer
                  THEN Player(ComputerId, ComputerName, dice2, FALSE, ComputerSocketId)
                  ELSE Player(2, "Ann", dice2, FALSE, 2)
    IN
    /\ connected = IF computer THEN {1} ELSE {1, 2}
    /\ nextSocketId = IF computer THEN 2 ELSE 3
    /\ games = PutGame(<<>>, 1,
                 [NewGame(1, creator) EXCEPT !.players = <<creator, second>>,
                                             !.gameStarted = TRUE])
    /\ orphans = <<>>
    /\ nextGameId = 2
    /\ nextPlayerId = 3
    /\ timers = <<>>
    /\ emitted = <<Event("gameStarted", 1, NoPlayer)>>

PlayNext ==
  \/ \E g \in GameIds : StartGame(g)
  \/ \E g \in GameIds, p \in PlayerIds, c \in BidCounts, v \in BidValues : MakeBid(g, p, c, v)
  \/ \E g \in GameIds, p \in PlayerIds, r \in RollChoices : CallBluff(g, p, r)
  \/ \E i \in 1..MaxTimers : NewRound(i)
  \/ \E i \in 1..MaxTimers, c \in 1..MaxOpeningCount, v \in RandomValues, coin \in BOOLEAN,
        r \in RollChoices :
       ComputerMove(i, c, v, coin, r)

PlaySpec == PlayInit /\ [][PlayNext]_vars

\* ------------------------------------------- players named like the computer
\* createGame and joinGame take any playerName, "Computer" included; here every
\* human player gives that name, with one bid value and one continuation pending
NamesakeNames == {ComputerName}

NamesakeNext ==
  \/ Connect
  \/ \E s \in SocketIds, n \in NamesakeNames, d \in rollDice(InitialDice) :
       CreateGame(s, n, d) /\ nextPlayerId' <= MaxPlayers + 1
  \/ \E s \in SocketIds, g \in GameIds, n \in NamesakeNames, d \in rollDice(InitialDice) :
       JoinGame(s, g, n, d) /\ nextPlayerId' <= MaxPlayers + 1
  \/ \E g \in GameIds : StartGame(g)
  \/ \E g \in GameIds, d \in rollDice(InitialDice) :
       AddComputer(g, d) /\ nextPlayerId' <= MaxPlayers + 1
  \/ \E g \in GameIds, p \in PlayerIds, c \in 1..MaxBidCount :
       MakeBid(g, p, c, 1) /\ Len(timers') <= 1
  \/ \E g \in GameIds, p \in PlayerIds, r \in RollChoices :
       CallBluff(g, p, r) /\ Len(timers') <= 1
  \/ \E s \in SocketIds : Disconnect(s)
  \/ \E i \in 1..MaxTimers : NewRound(i)
  \/ \E i \in 1..MaxTimers, c \in 1..MaxOpeningCount, v \in RandomValues, coin \in BOOLEAN,
        r \in RollChoices :
       ComputerMove(i, c, v, coin, r) /\ Len(timers') <= 1

NamesakeSpec == Init /\ [][NamesakeNext]_vars

\* ------------------------------------------------ the bids of the computer
\* computerMove on every hand of the six faces (in ascending order: the decision
\* and the bid depend on how often a face is in the hand, not on where), against
\* no bid and against every bid of count 1..MaxCurrentBidCount whose value is up
\* to MaxValueExcess outside 1..6, as makeBid accepts them
SortedHands ==
  {dice \in UNION {[1..n -> 1..DieFaces] : n \in 1..InitialDice} :
     \A i \in 1..(Len(dice) - 1) : dice[i] <= dice[i + 1]}

CurrentBidValues == (1 - MaxValueExcess)..(DieFaces + MaxValueExcess)

ComputerBidInit ==
  \E dice \in SortedHands, opponentDiceCount \in 1..InitialDice :
    \/ ComputerTurn(dice, opponentDiceCount, NoBid)
    \/ \E count \in 1..MaxCurrentBidCount, value \in CurrentBidValues :
         ComputerTurn(dice, opponentDiceCount, <<Bid(count, value, 1)>>)

ComputerBidSpec == ComputerBidInit /\ [][ComputerNext]_vars

\* ------------------------------------------------------------------ claims
\* the players of a game whose isCurrentTurn is set
TurnHolders(game) == {i \in DOMAIN game.players : game.players[i].isCurrentTurn}

\* a new round of the game is pending: a bluff was resolved and its continuation
\* has not run yet
RoundPending(gameId) ==
  \E i \in DOMAIN timers : timers[i].kind = "newRound" /\ timers[i].gameId = gameId

\* C1: in every started game that is not over at most one player has isCurrentTurn
C1_AtMostOneTurn ==
  \A g \in DOMAIN games :
    (games[g].gameStarted /\ ~games[g].gameOver) => Cardinality(TurnHolders(games[g])) <= 1

\* C2: in every started game that is not over and awaits a bid (no bluff
\* resolution is pending) exactly one player has isCurrentTurn
C2_ExactlyOneTurn ==
  \A g \in DOMAIN games :
    (games[g].gameStarted /\ ~games[g].gameOver /\ ~games[g].showDice /\ ~RoundPending(g))
      => Cardinality(TurnHolders(games[g])) = 1

\* C3: once a game is over, no step changes its currentBid, showDice or winner, nor
\* the diceCount, dice or isCurrentTurn of a player that stays in it
C3_FinishedIsFrozen ==
  [][\A g \in DOMAIN games :
       (games[g].gameOver /\ g \in DOMAIN games') =>
         /\ games'[g].currentBid = games[g].currentBid
         /\ games'[g].showDice = games[g].showDice
         /\ games'[g].winner = games[g].winner
         /\ \A i \in DOMAIN games[g].players, j \in DOMAIN games'[g].players :
              games'[g].players[j].id = games[g].players[i].id =>
                /\ games'[g].players[j].diceCount = games[g].players[i].diceCount
                /\ games'[g].players[j].dice = games[g].players[i].dice
                /\ games'[g].players[j].isCurrentTurn = games[g].players[i].isCurrentTurn
    ]_vars

\* C4: gameOver is emitted at most once for a game: the step that emits it sets
\* game.gameOver, and no step of a game whose gameOver is set emits it again
C4_GameOverOnce ==
  [][\A k \in DOMAIN emitted' :
       emitted'[k].type = "gameOver" =>
         ~(emitted'[k].gameId \in DOMAIN games /\ games[emitted'[k].gameId].gameOver)
    ]_vars

\* C5: every player has diceCount >= 0 and a hand of diceCount dice
C5_HandMatchesCount ==
  \A g \in DOMAIN games : \A i \in DOMAIN games[g].players :
    /\ games[g].players[i].diceCount >= 0
    /\ Len(games[g].players[i].dice) = games[g].players[i].diceCount

\* C6: a step that answers with an error changes nothing of the games, their
\* players or the pending continuations
C6_ErrorChangesNothing ==
  [][emitted' = <<ErrorEvent>> => UNCHANGED <<games, orphans, timers>>]_vars

\* C7: a makeBid by the player whose turn it is, against a current bid, is accepted
\* (it becomes currentBid and bidMade is emitted) iff its count is higher, or its
\* count is equal and its value higher; otherwise it is answered with an error
\* and currentBid stays; with no current bid every bid is accepted
C7_BidOrder ==
  [][\A g \in DOMAIN games, p \in PlayerIds, c \in BidCounts, v \in BidValues :
       LET i == FindIndexById(games[g].players, p)
           cur == games[g].currentBid
           higher == cur = NoBid \/ c > cur[1].count
                       \/ (c = cur[1].count /\ v > cur[1].value)
       IN (i # 0 /\ games[g].players[i].isCurrentTurn /\ MakeBid(g, p, c, v)) =>
            IF higher
            THEN /\ games'[g].currentBid = <<Bid(c, v, p)>>
                 /\ emitted'[1].type = "bidMade"
            ELSE /\ games'[g].currentBid = cur
                 /\ emitted' = <<ErrorEvent>>
    ]_vars

\* C7's case: the second player of a game in which no bluff was resolved yet (all
\* hands are full, so currentBid was never reset) has just raised the first
\* player's bid
C7_Witness ==
  \E g \in DOMAIN games :
    /\ games[g].gameStarted
    /\ Len(games[g].players) = 2
    /\ \A i \in 1..2 : games[g].players[i].diceCount = InitialDice
    /\ games[g].currentBid # NoBid
    /\ games[g].currentBid[1].playerId = games[g].players[2].id
    /\ games[g].currentBid[1].count = 1
    /\ games[g].currentBid[1].value = 1
    /\ emitted # <<>> /\ emitted[1].type = "bidMade"

\* C8: a current bid has count >= 1 and value in 1..6
C8_BidInRange ==
  \A g \in DOMAIN games :
    games[g].currentBid # NoBid =>
      /\ games[g].currentBid[1].count >= 1
      /\ games[g].currentBid[1].value \in 1..DieFaces

\* C9: a game that is not started has no current bid
C9_NoBidInLobby ==
  \A g \in DOMAIN games : ~games[g].gameStarted => games[g].currentBid = NoBid

\* C10: a resolved bluff (bluffCalled) names as loser the caller when the dice
\* equal to the bid's value, over all hands, are at least the bid's count, and the
\* bidder otherwise; the loser's diceCount drops by 1 and no other diceCount changes
C10_BluffResolution ==
  [][\A k \in DOMAIN emitted' :
       emitted'[k].type = "bluffCalled" =>
         LET g == emitted'[k].gameId
             before == GameObject(g).players
             after == (IF g \in DOMAIN games' THEN games'[g] ELSE orphans'[g]).players
             bid == GameObject(g).currentBid[1]
             totalMatching ==
               Cardinality({d \in UNION {{<<i, j>> : j \in DOMAIN before[i].dice} :
                                           i \in DOMAIN before} :
                              before[d[1]].dice[d[2]] = bid.value})
             loser == IF totalMatching >= bid.count THEN emitted'[k].caller ELSE bid.playerId
         IN /\ emitted'[k].player = loser
            /\ DOMAIN after = DOMAIN before
            /\ \A i \in DOMAIN before :
                 after[i].diceCount =
                   before[i].diceCount - (IF before[i].id = loser THEN 1 ELSE 0)
    ]_vars

\* C10's case: computerMove has called the bluff of the human player's bid and won,
\* which ended the game. No continuation is pending, so the call was computerMove's
\* own: a callBluff command sent in the computer's name would have left the
\* computer's pending computerMove continuation, or its new round, in timers
C10_Witness ==
  \E g \in DOMAIN games :
    /\ games[g].gameStarted
    /\ Len(games[g].players) = 2
    /\ games[g].players[1].socketId # ComputerSocketId
    /\ games[g].players[2].socketId = ComputerSocketId
    /\ games[g].players[1].diceCount = 0
    /\ games[g].players[2].diceCount > 0
    /\ timers = <<>>
    /\ Len(emitted) = 2
    /\ emitted[1].type = "bluffCalled"
    /\ emitted[1].gameId = g
    /\ emitted[1].caller = games[g].players[2].id
    /\ emitted[1].player = games[g].players[1].id
    /\ emitted[2].type = "gameOver"

\* C11: a game becomes over (gameOver with a winner) in exactly the step in which a
\* diceCount of one of its players first reaches 0, and in no other step; whenever
\* it is over, the winner is a player with diceCount > 0 and the only such player;
\* a game of a single player included
C11_OverOnFirstZero ==
  [][\A g \in (DOMAIN games) \cap (DOMAIN games') :
       LET before == games[g]
           after == games'[g]
           zeroBefore == \E i \in DOMAIN before.players : before.players[i].diceCount <= 0
           zeroAfter == \E i \in DOMAIN after.players : after.players[i].diceCount <= 0
           withDice == {i \in DOMAIN after.players : after.players[i].diceCount > 0}
       IN /\ (~before.gameOver /\ after.gameOver) <=> (~zeroBefore /\ zeroAfter)
          /\ after.gameOver =>
                \E i \in withDice : withDice = {i} /\ after.players[i].id = after.winner
    ]_vars

\* C11's failing case: the only player of a game has lost the last die in a bluff
\* call, and the game is not over and has no winner
C11_LonePlayerOutOfDice ==
  \E g \in DOMAIN games :
    /\ Len(games[g].players) = 1
    /\ games[g].players[1].diceCount = 0
    /\ ~games[g].gameOver
    /\ games[g].winner = NoPlayer
    /\ emitted # <<>> /\ emitted[1].type = "bluffCalled"

\* C12: when the new round of a game starts (the continuation of a bluff call that
\* left every player with dice), right after it the game has no current bid, the
\* dice are hidden, and the player who called the bluff is the one and only player
\* with isCurrentTurn
C12_NewRoundState ==
  [][\A i \in 1..MaxTimers :
       (NewRound(i) /\ timers[i].gameId \in DOMAIN games) =>
         LET after == games'[timers[i].gameId] IN
         /\ after.currentBid = NoBid
         /\ ~after.showDice
         /\ \E k \in DOMAIN after.players :
              /\ TurnHolders(after) = {k}
              /\ after.players[k].id = timers[i].challengerId
    ]_vars

\* C12's failing case: a new round has started in a game whose players all have
\* dice, and none of them has isCurrentTurn: the caller of the bluff has left
C12_NewRoundWithoutCaller ==
  \E g \in DOMAIN games :
    /\ emitted # <<>> /\ emitted[1].type = "newRound" /\ emitted[1].gameId = g
    /\ games[g].gameStarted
    /\ games[g].players # <<>>
    /\ \A k \in DOMAIN games[g].players : games[g].players[k].diceCount > 0
    /\ \A k \in DOMAIN games[g].players : games[g].players[k].id # emitted[1].player
    /\ TurnHolders(games[g]) = {}

\* C13: a continuation (new round or computerMove) that fires for a game that has
\* been deleted from the registry emits no event and changes nothing: not the
\* registry, not the deleted Game object, and it sets no further continuation
C13_DeletedGameContinuation ==
  [][\A i \in 1..MaxTimers :
       (/\ i \in DOMAIN timers
        /\ timers[i].gameId \notin DOMAIN games
        /\ \/ NewRound(i)
           \/ \E c \in 1..MaxOpeningCount, v \in RandomValues, coin \in BOOLEAN,
                 r \in RollChoices : ComputerMove(i, c, v, coin, r))
       => /\ emitted' = <<>>
          /\ games' = games
          /\ timers' = RemoveAt(timers, i)
          /\ \A g \in DOMAIN orphans' : orphans'[g] = orphans[g]
    ]_vars

\* C13's failing case: the game of the newRound event just emitted is not in the
\* registry
C13_NewRoundOfDeletedGame ==
  /\ emitted # <<>>
  /\ emitted[1].type = "newRound"
  /\ emitted[1].gameId \notin DOMAIN games

\* the computer of a game is to act and its computerMove continuation is pending
ComputerMovePending(gameId) ==
  \E i \in DOMAIN timers : timers[i].kind = "computerMove" /\ timers[i].gameId = gameId

\* C14: whenever the computer is the player to act in a started game that is not
\* over (outside the pause before a new round), its decision has been set to run:
\* a computerMove continuation of the game is pending
C14_ComputerMoveSet ==
  \A g \in DOMAIN games :
    (/\ games[g].gameStarted /\ ~games[g].gameOver /\ ~games[g].showDice
     /\ \E k \in DOMAIN games[g].players :
          /\ games[g].players[k].socketId = ComputerSocketId
          /\ games[g].players[k].isCurrentTurn)
    => ComputerMovePending(g)

\* C14, its last part: while the computer holds the turn and its computerMove has
\* not run yet, no makeBid and no callBluff in the computer's name is accepted
C14_NoCommandBeforeComputerMove ==
  [][\A g \in DOMAIN games, p \in SeatPlayerIds :
       LET k == FindIndexById(games[g].players, p) IN
       (/\ k # 0
        /\ games[g].players[k].socketId = ComputerSocketId
        /\ games[g].players[k].isCurrentTurn
        /\ games[g].gameStarted /\ ~games[g].gameOver
        /\ ComputerMovePending(g)
        /\ \/ \E c \in BidCounts, v \in BidValues : MakeBid(g, p, c, v)
           \/ \E r \in RollChoices : CallBluff(g, p, r))
       => emitted' = <<ErrorEvent>>
    ]_vars

\* C14's failing case: startGame has just started a game whose first player is the
\* computer (the creator left and another player joined): the computer holds the
\* turn and no continuation is pending
C14_StartedWithComputerFirst ==
  \E g \in DOMAIN games :
    /\ games[g].gameStarted /\ ~games[g].gameOver
    /\ Len(games[g].players) = 2
    /\ games[g].players[1].socketId = ComputerSocketId
    /\ games[g].players[1].isCurrentTurn
    /\ games[g].players[2].socketId # ComputerSocketId
    /\ ~games[g].players[2].isCurrentTurn
    /\ games[g].currentBid = NoBid
    /\ timers = <<>>
    /\ emitted = <<Event("gameStarted", g, NoPlayer)>>

\* C14's other failing case: the bid of a started game is owned by the computer, which
\* has passed the turn on, and the computerMove set for that turn is still pending
C14_BidInComputersName ==
  \E g \in DOMAIN games :
    /\ games[g].gameStarted /\ ~games[g].gameOver
    /\ Len(games[g].players) = 2
    /\ games[g].players[2].socketId = ComputerSocketId
    /\ ~games[g].players[2].isCurrentTurn
    /\ games[g].currentBid # NoBid
    /\ games[g].currentBid[1].playerId = games[g].players[2].id
    /\ ComputerMovePending(g)
    /\ emitted # <<>> /\ emitted[1].type = "bidMade"

\* C15: startGame for a game that is already started is refused with an error and
\* changes nothing; players[1].isCurrentTurn is not set again
C15_StartOnlyOnce ==
  [][\A g \in DOMAIN games :
       (games[g].gameStarted /\ StartGame(g)) =>
         (emitted' = <<ErrorEvent>> /\ games' = games)
    ]_vars

\* C16: in every step the diceCount of a player stays the same or drops by exactly
\* 1, and it drops only in the step that resolves a bluff call (bluffCalled) of the
\* player's game with that player as the loser
C16_DiceCountSteps ==
  [][\A g \in GameIds :
       (/\ g \in (DOMAIN games) \cup (DOMAIN orphans)
        /\ g \in (DOMAIN games') \cup (DOMAIN orphans'))
       => LET before == GameObject(g).players
              after == (IF g \in DOMAIN games' THEN games'[g] ELSE orphans'[g]).players
          IN \A i \in DOMAIN before, j \in DOMAIN after :
               before[i].id = after[j].id =>
                 \/ after[j].diceCount = before[i].diceCount
                 \/ /\ after[j].diceCount = before[i].diceCount - 1
                    /\ emitted' # <<>>
                    /\ emitted'[1].type = "bluffCalled"
                    /\ emitted'[1].gameId = g
                    /\ emitted'[1].player = before[i].id
    ]_vars

\* C16's case: a bluff call has just been resolved in a started game of two players;
\* its loser has lost a die before and is now two dice down, the other player has
\* lost one
C16_Witness ==
  \E g \in DOMAIN games :
    /\ games[g].gameStarted
    /\ Len(games[g].players) = 2
    /\ emitted # <<>> /\ emitted[1].type = "bluffCalled" /\ emitted[1].gameId = g
    /\ \E i, j \in DOMAIN games[g].players :
         /\ i # j
         /\ games[g].players[i].id = emitted[1].player
         /\ games[g].players[i].diceCount = InitialDice - 2
         /\ games[g].players[j].diceCount = InitialDice - 1

\* C17: after an accepted bid by the player at index i (from 0) of n players, the
\* player at index (i + 1) mod n is the only one with isCurrentTurn, currentBid is
\* the new bid with the bidder as its owner, and bidMade names that player as the
\* next to act; with n = 2 the bidder no longer holds the turn. The bid is a makeBid
\* command (the step sets no timer off) or computerMove's (the step ends a timer)
C17_TurnAfterBid ==
  [][(emitted' # <<>> /\ emitted'[1].type = "bidMade") =>
       LET g == emitted'[1].gameId
           before == GameObject(g).players
           after == IF g \in DOMAIN games' THEN games'[g] ELSE orphans'[g]
           n == Len(before)
           Moved(bidder) ==
             LET i == FindIndexById(before, bidder) - 1
                 next == ((i + 1) % n) + 1
             IN /\ Len(after.players) = n
                /\ TurnHolders(after) = {next}
                /\ after.players[next].id = before[next].id
                /\ emitted' = <<Event("bidMade", g, before[next].id)>>
                /\ after.currentBid # NoBid
                /\ after.currentBid[1].playerId = bidder
                /\ n = 2 => ~after.players[i + 1].isCurrentTurn
       IN IF Len(timers') < Len(timers)
          THEN Moved(before[FindIndexByName(before, ComputerName)].id)
          ELSE \A p \in PlayerIds, c \in BidCounts, v \in BidValues :
                 MakeBid(g, p, c, v) =>
                   /\ Moved(p)
                   /\ after.currentBid = <<Bid(c, v, p)>>
    ]_vars

\* C17's case: in a started game of two players the first player's makeBid has just
\* been accepted: the bid is the first player's and the second player holds the turn
C17_Witness ==
  \E g \in DOMAIN games :
    /\ games[g].gameStarted /\ ~games[g].gameOver
    /\ Len(games[g].players) = 2
    /\ games[g].players[1].socketId # ComputerSocketId
    /\ games[g].currentBid = <<Bid(1, 1, games[g].players[1].id)>>
    /\ ~games[g].players[1].isCurrentTurn
    /\ games[g].players[2].isCurrentTurn
    /\ emitted = <<Event("bidMade", g, games[g].players[2].id)>>

\* C18: no game ever has more than 2 players: a joinGame and an addComputer for a
\* game that has 2 players are refused with an error and change nothing, whatever
\* joins, additions and disconnects came before
C18_AtMostTwoPlayers ==
  [][/\ \A g \in DOMAIN games' : Len(games'[g].players) <= 2
     /\ \A g \in DOMAIN games :
          (/\ Len(games[g].players) = 2
           /\ \/ \E s \in SocketIds, n \in PlayerNames, d \in rollDice(InitialDice) :
                   JoinGame(s, g, n, d)
              \/ \E d \in rollDice(InitialDice) : AddComputer(g, d))
          => (emitted' = <<ErrorEvent>> /\ games' = games)
    ]_vars

\* C18's case: a command has just been refused in a game in the lobby that has 2
\* players again, after a disconnect freed a seat and a third player took it
C18_Witness ==
  \E g \in DOMAIN games :
    /\ ~games[g].gameStarted
    /\ Len(games[g].players) = 2
    /\ games[g].players[2].id = MaxPlayersPerGame + 1
    /\ nextPlayerId = MaxPlayersPerGame + 2
    /\ emitted = <<ErrorEvent>>

\* the players of a game that are not of socket s
NotOfSocket(players, s) == SelectSeq(players, LAMBDA p : p.socketId # s)

\* a command naming game g is sent: joinGame, startGame, addComputer, makeBid or
\* callBluff
CommandNaming(g) ==
  \/ \E s \in SocketIds, n \in PlayerNames, d \in rollDice(InitialDice) : JoinGame(s, g, n, d)
  \/ StartGame(g)
  \/ \E d \in rollDice(InitialDice) : AddComputer(g, d)
  \/ \E p \in PlayerIds, c \in BidCounts, v \in BidValues : MakeBid(g, p, c, v)
  \/ \E p \in PlayerIds, r \in RollChoices : CallBluff(g, p, r)

\* C19: the disconnect of a socket removes from every game the players of that
\* socket and nothing else: the other players (hand, diceCount, isCurrentTurn) and
\* the game's currentBid, gameStarted and gameOver are as before; the game is
\* deleted from the registry iff no player is left; and every command naming a
\* deleted game is answered with an error and changes nothing
C19_DisconnectFrame ==
  [][/\ \A s \in SocketIds :
          Disconnect(s) =>
            \A g \in DOMAIN games :
              LET rest == NotOfSocket(games[g].players, s) IN
              /\ g \in DOMAIN games' <=> rest # <<>>
              /\ g \in DOMAIN games' => games'[g] = [games[g] EXCEPT !.players = rest]
     /\ \A g \in GameIds :
          (g < nextGameId /\ g \notin DOMAIN games /\ CommandNaming(g))
          => (emitted' = <<ErrorEvent>> /\ games' = games)
    ]_vars

\* C19 with the player that the code removes: the disconnect of a socket removes
\* from every game the first player of that socket and nothing else; the game is
\* deleted iff no player is left; commands naming a deleted game get an error
C19_FirstSeatRemoved ==
  [][/\ \A s \in SocketIds :
          Disconnect(s) =>
            \A g \in DOMAIN games :
              LET k == FindIndexBySocket(games[g].players, s)
                  rest == [j \in 1..(Len(games[g].players) - (IF k = 0 THEN 0 ELSE 1)) |->
                             games[g].players[IF k = 0 \/ j < k THEN j ELSE j + 1]]
              IN
              /\ g \in DOMAIN games' <=> rest # <<>>
              /\ g \in DOMAIN games' => games'[g] = [games[g] EXCEPT !.players = rest]
     /\ \A g \in GameIds :
          (g < nextGameId /\ g \notin DOMAIN games /\ CommandNaming(g))
          => (emitted' = <<ErrorEvent>> /\ games' = games)
    ]_vars

\* the computer's turn to answer a bid: the number of its dice that show the bid's
\* value, the number the other players have to add, and the dice of the players
\* that are not the computer
ComputerToAnswer(g) ==
  /\ timers # <<>> /\ timers[1].kind = "computerMove" /\ timers[1].gameId = g
  /\ g \in DOMAIN games
  /\ games[g].currentBid # NoBid
  /\ \E k \in DOMAIN games[g].players :
       games[g].players[k].socketId = ComputerSocketId /\ games[g].players[k].isCurrentTurn
  /\ ComputerNext

Have(g) ==
  LET k == CHOOSE k \in DOMAIN games[g].players :
             games[g].players[k].socketId = ComputerSocketId
  IN Cardinality({d \in DOMAIN games[g].players[k].dice :
                    games[g].players[k].dice[d] = games[g].currentBid[1].value})

Needed(g) == games[g].currentBid[1].count - Have(g)

Opp(g) ==
  LET others == {k \in DOMAIN games[g].players :
                   games[g].players[k].socketId # ComputerSocketId}
      sum[S \in SUBSET others] ==
        IF S = {} THEN 0
        ELSE LET k == CHOOSE k \in S : TRUE
             IN games[g].players[k].diceCount + sum[S \ {k}]
  IN sum[others]

\* 6^n * n!, the denominator of both products
ProductDen(n) ==
  LET f[k \in 0..n] == IF k = 0 THEN 1 ELSE f[k - 1] * 6 * k IN f[n]

\* the product for i in 0..n-1 of (opp - i)
FallingProduct(opp, n) ==
  LET f[k \in 0..n] == IF k = 0 THEN 1 ELSE f[k - 1] * (opp - (k - 1)) IN f[n]

\* the product for i in 0..n-1 of opp
PowerProduct(opp, n) ==
  LET f[k \in 0..n] == IF k = 0 THEN 1 ELSE f[k - 1] * opp IN f[n]

\* P < 0.3, for P = 1 if needed <= 0, P = 0 if needed > opp, and otherwise
\* P = min(1, num / ProductDen(needed))
BelowThreshold(needed, opp, num) ==
  IF needed <= 0 THEN FALSE
  ELSE IF needed > opp THEN TRUE
  ELSE 10 * num < 3 * ProductDen(needed)

\* the step is a bluff call, or else a bid
CalledBluff == emitted' # <<>> /\ emitted'[1].type = "bluffCalled"
MadeBid == emitted' # <<>> /\ emitted'[1].type = "bidMade"

\* C20 as claimed: the computer answers a bid with a bluff call iff P < 0.3, where
\* P = 1 if needed <= 0, P = 0 if needed > opp, and otherwise
\* P = min(1, product for i in 0..needed-1 of (opp - i) / (6 * (i + 1))); in every
\* other case it bids
C20_FallingProductDecision ==
  [][\A g \in GameIds :
       ComputerToAnswer(g) =>
         IF BelowThreshold(Needed(g), Opp(g), FallingProduct(Opp(g), Needed(g)))
         THEN CalledBluff ELSE MadeBid
    ]_vars

\* C20 amended: the computer answers a bid with a bluff call iff P < 0.3, where
\* P = 1 if needed <= 0, P = 0 if needed > opp, and otherwise
\* P = min(1, product for i in 0..needed-1 of opp / (6 * (i + 1))): every factor has
\* the whole opp; in every other case it bids
C20_PowerProductDecision ==
  [][\A g \in GameIds :
       ComputerToAnswer(g) =>
         IF BelowThreshold(Needed(g), Opp(g), PowerProduct(Opp(g), Needed(g)))
         THEN CalledBluff ELSE MadeBid
    ]_vars

\* C20's case: the computer, holding a 1 and a 2, has just raised to 4 dice of
\* value 1. A raise to value 1 is a raise of the count, so the bid it answered had
\* count 3 (and value 1 or 2): it needed 2 dice from the 5 of the human player, and
\* P = 25/72 with the whole opp in every factor, not below 0.3 (20/72 with opp - i)
C20_Witness ==
  \E g \in DOMAIN games :
    /\ Len(games[g].players) = 2
    /\ games[g].players[1].diceCount = 5
    /\ games[g].players[2].socketId = ComputerSocketId
    /\ games[g].players[2].dice = <<1, 2>>
    /\ games[g].currentBid = <<Bid(4, 1, games[g].players[2].id)>>
    /\ timers = <<>>
    /\ emitted = <<Event("bidMade", g, games[g].players[1].id)>>

\* ---------------------------------------------------------------- C21
Higher(bid, currentBid) ==
  \/ bid.count > currentBid.count
  \/ bid.count = currentBid.count /\ bid.value > currentBid.value

ComputerBids(g) ==
  /\ g \in DOMAIN games /\ g \in DOMAIN games'
  /\ timers # <<>> /\ timers[1].kind = "computerMove" /\ timers[1].gameId = g
  /\ Len(timers') < Len(timers)
  /\ MadeBid
  /\ games'[g].currentBid # NoBid

\* C21: every bid the computer places is legal: its opening bid (no current bid)
\* has a count in 1..3 and a value in 1..6, and every other bid of it has a value
\* in 1..6 and is strictly higher than the current bid it replaces, for every
\* hand and every current bid
C21_ComputerBidLegal ==
  [][\A g \in GameIds :
       ComputerBids(g) =>
         LET bid == games'[g].currentBid[1] IN
         /\ bid.value \in 1..DieFaces
         /\ IF games[g].currentBid = NoBid
            THEN bid.count \in 1..MaxOpeningCount
            ELSE Higher(bid, games[g].currentBid[1])]_vars

\* the same for the current bids whose value is one of the six faces
C21_LegalAfterLegalBid ==
  [][\A g \in GameIds :
       (/\ ComputerBids(g)
        /\ games[g].currentBid # NoBid
        /\ games[g].currentBid[1].value \in 1..DieFaces) =>
         LET bid == games'[g].currentBid[1] IN
         /\ bid.value \in 1..DieFaces
         /\ Higher(bid, games[g].currentBid[1])]_vars

\* ---------------------------------------------------------------- C22
\* the reveal window of a started game of two players: a bluff on a bid within
\* the ranges was resolved without ending the game and the new round has not
\* started
RevealWindow(g) ==
  /\ g \in DOMAIN games
  /\ games[g].gameStarted /\ Len(games[g].players) = MaxPlayersPerGame
  /\ games[g].showDice /\ ~games[g].gameOver
  /\ games[g].currentBid # NoBid
  /\ games[g].currentBid[1].count >= 1 /\ games[g].currentBid[1].value \in 1..DieFaces
  /\ RoundPending(g)

DiceCounts(game) == [k \in DOMAIN game.players |-> game.players[k].diceCount]

NewRoundsPending(pending, g) ==
  Cardinality({i \in DOMAIN pending : pending[i].kind = "newRound" /\ pending[i].gameId = g})

\* a makeBid or callBluff command was carried out (no continuation ran)
CommandCarriedOut == (MadeBid \/ CalledBluff) /\ Len(timers') >= Len(timers)

\* C22: in the reveal window of a game no makeBid and no callBluff changes the
\* game: currentBid and every diceCount stay as the resolution left them, and
\* exactly one new round stays set
C22_RevealWindowFrozen ==
  [][\A g \in GameIds :
       (RevealWindow(g) /\ CommandCarriedOut /\ g \in DOMAIN games') =>
         /\ games'[g].currentBid = games[g].currentBid
         /\ DiceCounts(games'[g]) = DiceCounts(games[g])
         /\ NewRoundsPending(timers', g) = 1]_vars

\* a second die is lost and a second new round is set in one reveal window
C22_TwoDiceInOneWindow ==
  \E g \in DOMAIN games :
    /\ games[g].gameStarted /\ Len(games[g].players) = MaxPlayersPerGame
    /\ games[g].showDice /\ ~games[g].gameOver
    /\ NewRoundsPending(timers, g) = 2
    /\ SumSeq(DiceCounts(games[g])) = Len(games[g].players) * InitialDice - 2

\* ---------------------------------------------------------------- C23
\* a computerMove continuation has made a bid or called a bluff: a bid by a
\* command removes no continuation, and a bluff call by a command leaves the
\* continuations as they are or adds one
ComputerActs ==
  \/ MadeBid /\ Len(timers') < Len(timers)
  \/ CalledBluff /\ Len(timers') <= Len(timers) /\ timers' # timers

\* the player the move was made for
ActorOfMove(g) == IF MadeBid THEN games'[g].currentBid[1].playerId ELSE emitted'[1].caller

\* C23: computerMove acts only for a player created by addComputer: in a started
\* game with one player on turn no bid and no bluff call is made by it for a
\* human player, whatever name the player gave
C23_ComputerActsForComputerOnly ==
  [][\A g \in GameIds :
       (/\ ComputerActs /\ emitted'[1].gameId = g
        /\ g \in DOMAIN games /\ g \in DOMAIN games'
        /\ games[g].gameStarted /\ Cardinality(TurnHolders(games[g])) = 1) =>
         \A k \in DOMAIN games[g].players :
           games[g].players[k].id = ActorOfMove(g) =>
             games[g].players[k].socketId = ComputerSocketId]_vars

\* the current bid of a game is the bid of a human player who made no bid: no
\* makeBid was carried out after the last bid's removal, computerMove made it
C23_BidForNamesake ==
  \E g \in DOMAIN games :
    /\ games[g].gameStarted /\ Len(games[g].players) = MaxPlayersPerGame
    /\ \A k \in DOMAIN games[g].players : games[g].players[k].socketId # ComputerSocketId
    /\ games[g].currentBid # NoBid
    /\ games[g].currentBid[1].count > MaxBidCount

\* ---------------------------------------------------------------- C24
\* what the callBluff handler makes of a game when playerId, on turn, calls the
\* bluff on a bid whose bidder is in the game: the game, the events and the
\* continuation it sets
CallBluffOutcome(g, game, playerId, rolls) ==
  LET challengerIndex == FindIndexById(game.players, playerId)
      loserIndex == BluffLoser(game, challengerIndex)
      players == LoseDieAndReroll(game.players, loserIndex, rolls)
      winnerIndex == FindIndexWithDice(players)
      bluffCalled == [Event("bluffCalled", g, game.players[loserIndex].id)
                        EXCEPT !.caller = playerId]
      over == GameEnded(players) /\ winnerIndex # 0
  IN
  [game |-> IF over
            THEN [game EXCEPT !.showDice = TRUE, !.players = players,
                              !.winner = players[winnerIndex].id, !.gameOver = TRUE]
            ELSE [game EXCEPT !.showDice = TRUE, !.players = players],
   emitted |-> IF over
               THEN <<bluffCalled, Event("gameOver", g, players[winnerIndex].id)>>
               ELSE <<bluffCalled>>,
   set |-> IF GameEnded(players) THEN <<>>
           ELSE <<NewRoundTimer(g, playerId,
                                game.players[challengerIndex].name = ComputerName)>>]

\* the computer of game g called the bluff in this step, the dice falling as rolls
ComputerCalledBluff(g, rolls) ==
  /\ CalledBluff
  /\ timers # <<>> /\ timers[1] = ComputerMoveTimer(g)
  /\ \E c \in 1..MaxOpeningCount, v \in RandomValues, coin \in BOOLEAN :
       ComputerMove(1, c, v, coin, rolls)

\* the callBluff command with the computer's id was carried out in this step
HandlerCalledBluff(g, rolls) == CalledBluff /\ CallBluff(g, ComputerId, rolls)

\* C24: a bluff call of the computer changes the game as callBluff with the
\* computer's player id does from the same state and the same rolls: the same
\* loser, diceCounts, hands, showDice, gameOver and winner, the same events, and
\* the same new round set (for the caller, followed by computerMove)
C24_ComputerCallsAsHandler ==
  [][\A g \in GameIds, rolls \in RollChoices :
       /\ HandlerCalledBluff(g, rolls) =>
            LET outcome == CallBluffOutcome(g, games[g], ComputerId, rolls) IN
            /\ games'[g] = outcome.game
            /\ emitted' = outcome.emitted
            /\ timers' = timers \o outcome.set
       /\ ComputerCalledBluff(g, rolls) =>
            LET outcome == CallBluffOutcome(g, games[g], ComputerId, rolls) IN
            /\ games'[g] = outcome.game
            /\ emitted' = outcome.emitted
            /\ timers' = Tail(timers) \o outcome.set]_vars

\* the computer has called the bluff on a bid that is met exactly, lost a die of
\* its two, and its new round is set
C24_Witness ==
  /\ 1 \in DOMAIN games
  /\ games[1].showDice /\ ~games[1].gameOver
  /\ games[1].currentBid = <<Bid(5, 1, 1)>>
  /\ games[1].players[1].diceCount = 5
  /\ games[1].players[2].diceCount = 1
  /\ emitted = <<[Event("bluffCalled", 1, ComputerId) EXCEPT !.caller = ComputerId]>>
  /\ timers = <<NewRoundTimer(1, ComputerId, TRUE)>>

\* ---------------------------------------------------------------- C25
\* C25: once a game is started its players never gain a member: joinGame and
\* addComputer are refused when gameStarted is true, also after a disconnect
\* has freed a seat
C25_NoNewPlayerOnceStarted ==
  [][\A g \in GameIds :
       (g \in DOMAIN games /\ games[g].gameStarted /\ g \in DOMAIN games') =>
         Len(games'[g].players) <= Len(games[g].players)]_vars

\* a started game whose second player is the computer, with the last player id
\* given out, behind the joiner of the game: the creator has left after the
\* start and the computer was added to the freed seat
C25_ComputerAddedAfterStart ==
  \E g \in DOMAIN games :
    /\ games[g].gameStarted
    /\ Len(games[g].players) = MaxPlayersPerGame
    /\ games[g].players[1].socketId # ComputerSocketId
    /\ games[g].players[2].socketId = ComputerSocketId
    /\ games[g].players[2].id = MaxSeatPlayers
    /\ games[g].players[1].id = 2

\* ---------------------------------------------------------------- C26
\* C26: after the disconnect of a socket no player of any game in the registry
\* has its socketId: every player of a game is the computer or a player of a
\* connected socket
C26_NoPlayerOfDisconnectedSocket ==
  \A g \in DOMAIN games :
    \A k \in DOMAIN games[g].players :
      games[g].players[k].socketId \in connected \cup {ComputerSocketId}

\* ---------------------------------------------------------------- C27
HumanPlayers(game) ==
  {k \in DOMAIN game.players : game.players[k].socketId # ComputerSocketId}

\* C27: once every human player of a game has disconnected the game is removed
\* from the registry, also when the computer is still among its players: no
\* game of the registry is without a human player
C27_NoGameWithoutHuman ==
  \A g \in DOMAIN games : HumanPlayers(games[g]) # {}

\* ---------------------------------------------------------------- C28
SumOfDiceCounts(game) == SumSeq(DiceCounts(game))

\* a bluff was resolved in this step
BluffResolved == \E k \in DOMAIN emitted' : emitted'[k].type = "bluffCalled"

\* C28: in a started game of two players every resolved bluff lowers the sum of
\* the diceCounts by exactly 1 and no other step changes it, so from five dice
\* each the game is over after at most 9 resolved bluffs: with the sum at 1 or
\* below the game is over
C28_NineBluffsAtMost ==
  /\ [][\A g \in DOMAIN games :
          SumOfDiceCounts(games'[g]) =
            SumOfDiceCounts(games[g]) - (IF BluffResolved THEN 1 ELSE 0)]_vars
  /\ [](\A g \in DOMAIN games :
          SumOfDiceCounts(games[g]) <= 2 * InitialDice - 9 => games[g].gameOver)

\* the ninth resolved bluff has just ended the game: one die is left
C28_Witness ==
  \E g \in DOMAIN games :
    /\ Len(games[g].players) = 2
    /\ SumOfDiceCounts(games[g]) = 2 * InitialDice - 9
    /\ games[g].gameOver
    /\ \E k \in DOMAIN emitted : emitted[k].type = "bluffCalled"
    /\ \E k \in DOMAIN emitted : emitted[k].type = "gameOver"
====
